---- MODULE Spec2Model ----
(***************************************************************************)
(* Model of the MintNFT transaction handler of the zkSync state keeper     *)
(* (core/lib/state/src/handler/mint_nft.rs): create_op, apply_tx, apply_op *)
(* and get_or_create_nft_account_token_id, acting on the account store of  *)
(* ZkSyncState (accounts, address index, NFT registry).                    *)
(***************************************************************************)
EXTENDS Integers, Sequences, FiniteSets, TLC

VARIABLES
    accounts,               \* ZkSyncState account tree: account id -> Account
    account_id_by_address,  \* ZkSyncState reverse index: address -> account id
    nfts,                   \* ZkSyncState::nfts: token id -> NFT
    result,                 \* outcome of the last apply_tx: "None" before any call, "Ok", an error name, "Panic"
    updates,                \* AccountUpdates returned by the last apply_tx (empty on Err)
    fee,                    \* Option<CollectedFee> returned by the last apply_tx: <<>> or <<fee>>
    history                 \* the calls that reached the first mutation of apply_op, in application order

vars == <<accounts, account_id_by_address, nfts, result, updates, fee, history>>

-----------------------------------------------------------------------------
(* Bounds of the model *)

\* number of apply_tx calls that get past the nonce and balance checks
MaxMints == 3

-----------------------------------------------------------------------------
(* Program constants (zksync_crypto::params) *)

MIN_NFT_TOKEN_ID == 65536
NFT_TOKEN_ID == 2147483647
NFT_STORAGE_ACCOUNT_ID == 16777215
NFT_STORAGE_ACCOUNT_ADDRESS == "0xffffffffffffffffffffffffffffffffffffffff"
ZeroAddress == "0x0000000000000000000000000000000000000000"
\* max_processable_token(): the largest fee token create_op accepts
MaxProcessableToken == MIN_NFT_TOKEN_ID - 1
\* PubKeyHash::default(): the fingerprint of a locked account
DefaultPubKeyHash == 0

-----------------------------------------------------------------------------
(* Option values: None is <<>>, Some(x) is <<x>> *)

None == <<>>
Some(x) == <<x>>

\* the map f with key k set to v (HashMap::insert / tree insert)
Put(f, k, v) == [x \in (DOMAIN f) \cup {k} |-> IF x = k THEN v ELSE f[x]]

-----------------------------------------------------------------------------
(* Account *)

\* token ids an account of the model can hold a balance of
TokenIds == {0, NFT_TOKEN_ID} \cup (MIN_NFT_TOKEN_ID .. MIN_NFT_TOKEN_ID + MaxMints + 1)

ZeroBalances == [t \in TokenIds |-> 0]

\* Account::default() with an address
NewAccount(address) ==
    [address |-> address, nonce |-> 0, pub_key_hash |-> DefaultPubKeyHash,
     balances |-> ZeroBalances]

get_balance(account, token) == account.balances[token]

add_balance(account, token, amount) ==
    [account EXCEPT !.balances[token] = @ + amount]

sub_balance(account, token, amount) ==
    [account EXCEPT !.balances[token] = @ - amount]

\* Account::create_account(id, address): the new account and its Create update
create_account(id, address) ==
    [account |-> NewAccount(address),
     updates |-> << [id |-> id, kind |-> "Create", address |-> address, nonce |-> 0] >>]

\* BigUint::to_u32(): Some(v) when v < 2^32, else None
to_u32(v) == IF v >= 0 /\ (v \div 65536) < 65536 THEN Some(v) ELSE None

-----------------------------------------------------------------------------
(* Account store (ZkSyncState) *)

Store(a, i, n) == [accounts |-> a, account_id_by_address |-> i, nfts |-> n]

has_account(st, id) == id \in DOMAIN st.accounts

get_account(st, id) == st.accounts[id]

insert_account(st, id, account) ==
    [st EXCEPT !.accounts = Put(@, id, account),
               !.account_id_by_address = Put(@, account.address, id)]

\* Option<AccountId> of the account registered under the address
get_account_by_address(st, address) ==
    IF address \in DOMAIN st.account_id_by_address
    THEN Some(st.account_id_by_address[address])
    ELSE None

insert_nft(st, token_id, token) == [st EXCEPT !.nfts = Put(@, token_id, token)]

-----------------------------------------------------------------------------
(* Deterministic derivation (zksync_types::tx) *)

calculate_token_hash(creator_id, serial_id, content_hash) ==
    (creator_id * 16 + (serial_id % 16)) * 16 + (content_hash % 16)

calculate_token_address(token_hash) == 4096 + (token_hash % 4096)

\* the low bytes of the hash, as a balance
calculate_token_data(token_hash) == token_hash % 65536

\* NFT::new(id, serial_id, creator_id, creator_address, address, symbol, content_hash)
NFT_new(id, serial_id, creator_id, creator_address, address, content_hash) ==
    [id |-> id, serial_id |-> serial_id, creator_id |-> creator_id,
     creator_address |-> creator_address, address |-> address,
     content_hash |-> content_hash]

-----------------------------------------------------------------------------
(* AccountUpdate *)

UpdateBalance(id, token, old_balance, new_balance, old_nonce, new_nonce) ==
    [id |-> id, kind |-> "UpdateBalance", token |-> token,
     old_balance |-> old_balance, new_balance |-> new_balance,
     old_nonce |-> old_nonce, new_nonce |-> new_nonce]

MintNFTUpdate(id, token, nonce) ==
    [id |-> id, kind |-> "MintNFT", token |-> token, nonce |-> nonce]

-----------------------------------------------------------------------------
(* Inputs: the MintNFT transactions the model submits *)

Address1 == "0x0000000000000000000000000000000000000001"
Address2 == "0x0000000000000000000000000000000000000002"
Address3 == "0x0000000000000000000000000000000000000003"
UnknownAddress == "0x0000000000000000000000000000000000000009"

\* accounts 1 and 2 are unlocked, account 3 is locked, account 4 does not exist
CreatorIds == {1, 2, 3, 4}
\* a fee token create_op accepts, and the first one it rejects
FeeTokens == {0}
BadFeeTokens == {MaxProcessableToken + 1}
Fees == {0, 1}
\* the zero address, the address of account 1, the address of the NFT storage
\* account, and an address no account has
Recipients == {ZeroAddress, Address1, NFT_STORAGE_ACCOUNT_ADDRESS, UnknownAddress}
ContentHashes == {1}
Nonces == 0 .. MaxMints

\* unsigned requests with every combination of the other fields; requests with
\* nonce 0 whose signature recovers the fingerprint of account 1; requests with
\* the rejected fee token, for every creator and recipient
Txs ==
    [creator_id : CreatorIds, fee_token : FeeTokens, fee : Fees,
     recipient : Recipients, content_hash : ContentHashes, nonce : Nonces,
     signature : {None}]
    \cup
    [creator_id : CreatorIds, fee_token : FeeTokens, fee : {0},
     recipient : {Address1, UnknownAddress}, content_hash : ContentHashes,
     nonce : {0}, signature : {Some(1)}]
    \cup
    [creator_id : CreatorIds, fee_token : BadFeeTokens, fee : {0},
     recipient : Recipients, content_hash : ContentHashes, nonce : {0},
     signature : {None}]

\* MintNFT::verify_signature(): Option of the recovered pub_key_hash
verify_signature(tx) == tx.signature

-----------------------------------------------------------------------------
(* create_op *)

Err(e) == [ok |-> FALSE, err |-> e, op |-> None]

MintNFTOp(tx, creator_account_id, recipient_account_id) ==
    [creator_account_id |-> creator_account_id,
     recipient_account_id |-> recipient_account_id,
     tx |-> tx]

\* mutant of create_op: the recipient is looked up before the signature check
create_op_RecipientFirst(st, tx) ==
    IF ~(tx.fee_token <= MaxProcessableToken) THEN Err("InvalidTokenId")
    ELSE IF ~(tx.recipient # ZeroAddress) THEN Err("RecipientAccountIncorrect")
    ELSE IF ~has_account(st, tx.creator_id) THEN Err("CreatorAccountNotFound")
    ELSE IF ~(get_account(st, tx.creator_id).pub_key_hash # DefaultPubKeyHash)
         THEN Err("CreatorAccountIsLocked")
    ELSE IF get_account_by_address(st, tx.recipient) = None
         THEN Err("RecipientAccountNotFound")
    ELSE IF /\ verify_signature(tx) # None
            /\ verify_signature(tx)[1] # get_account(st, tx.creator_id).pub_key_hash
         THEN Err("InvalidSignature")
    ELSE [ok |-> TRUE, err |-> "",
          op |-> Some(MintNFTOp(tx, tx.creator_id,
                                get_account_by_address(st, tx.recipient)[1]))]

create_op(st, tx) ==
    IF ~(tx.fee_token <= MaxProcessableToken) THEN Err("InvalidTokenId")
    ELSE IF ~(tx.recipient # ZeroAddress) THEN Err("RecipientAccountIncorrect")
    ELSE IF ~has_account(st, tx.creator_id) THEN Err("CreatorAccountNotFound")
    ELSE IF ~(get_account(st, tx.creator_id).pub_key_hash # DefaultPubKeyHash)
         THEN Err("CreatorAccountIsLocked")
    ELSE IF /\ verify_signature(tx) # None
            /\ verify_signature(tx)[1] # get_account(st, tx.creator_id).pub_key_hash
         THEN Err("InvalidSignature")
    ELSE IF get_account_by_address(st, tx.recipient) = None
         THEN Err("RecipientAccountNotFound")
    ELSE [ok |-> TRUE, err |-> "",
          op |-> Some(MintNFTOp(tx, tx.creator_id,
                                get_account_by_address(st, tx.recipient)[1]))]

-----------------------------------------------------------------------------
(* apply_op, step by step *)

\* mutant of NonceGuard: a nonce ahead of the account's is accepted
NonceGuard_AcceptsLater(creator_account, op) == creator_account.nonce <= op.tx.nonce

\* invariant!(nonce == op.tx.nonce, NonceMismatch)
NonceGuard(creator_account, op) == creator_account.nonce = op.tx.nonce

\* mutant of BalanceGuard: the fee is not compared with the balance
BalanceGuard_Dropped(creator_account, op) ==
    get_balance(creator_account, op.tx.fee_token) >= 0

\* invariant!(old_balance >= op.tx.fee, InsufficientBalance)
BalanceGuard(creator_account, op) ==
    get_balance(creator_account, op.tx.fee_token) >= op.tx.fee

\* mutant of CollectFee: the nonce is logged as incremented but not stored
CollectFee_NonceKept(creator_account, op) ==
    LET old_balance == get_balance(creator_account, op.tx.fee_token)
        nonce == creator_account.nonce
        debited == sub_balance(creator_account, op.tx.fee_token, op.tx.fee)
        new_balance == get_balance(debited, op.tx.fee_token)
    IN  [account |-> debited,
         update |-> UpdateBalance(op.creator_account_id, op.tx.fee_token,
                                  old_balance, new_balance, nonce, nonce + 1)]

\* the creator pays the fee and its nonce is incremented (the nonce is a u32
\* whose wrap at 2^32 lies beyond the nonces of the model)
CollectFee(creator_account, op) ==
    LET old_balance == get_balance(creator_account, op.tx.fee_token)
        nonce == creator_account.nonce
        debited == sub_balance(creator_account, op.tx.fee_token, op.tx.fee)
        new_balance == get_balance(debited, op.tx.fee_token)
        account == [debited EXCEPT !.nonce = @ + 1]
    IN  [account |-> account,
         update |-> UpdateBalance(op.creator_account_id, op.tx.fee_token,
                                  old_balance, new_balance, nonce, account.nonce)]

\* mutant of SerialCounter: the serial id is read after the increment
SerialCounter_ReadAfterIncrement(creator_account, op) ==
    LET old_balance == get_balance(creator_account, NFT_TOKEN_ID)
        old_nonce == creator_account.nonce
        account == add_balance(creator_account, NFT_TOKEN_ID, 1)
        new_balance == get_balance(account, NFT_TOKEN_ID)
        serial_id == IF to_u32(new_balance) = None THEN 0 ELSE to_u32(new_balance)[1]
    IN  [account |-> account, serial_id |-> serial_id,
         update |-> UpdateBalance(op.creator_account_id, NFT_TOKEN_ID,
                                  old_balance, new_balance, old_nonce, account.nonce)]

\* the serial id is the creator's balance of NFT_TOKEN_ID, which is incremented
SerialCounter(creator_account, op) ==
    LET old_balance == get_balance(creator_account, NFT_TOKEN_ID)
        old_nonce == creator_account.nonce
        serial_id == IF to_u32(old_balance) = None THEN 0 ELSE to_u32(old_balance)[1]
        account == add_balance(creator_account, NFT_TOKEN_ID, 1)
        new_balance == get_balance(account, NFT_TOKEN_ID)
    IN  [account |-> account, serial_id |-> serial_id,
         update |-> UpdateBalance(op.creator_account_id, NFT_TOKEN_ID,
                                  old_balance, new_balance, old_nonce, account.nonce)]

\* mutant of get_or_create_nft_account_token_id: the counter update is logged
\* before the creation of the account
get_or_create_nft_account_token_id_UpdateFirst(st) ==
    IF has_account(st, NFT_STORAGE_ACCOUNT_ID)
    THEN [account |-> get_account(st, NFT_STORAGE_ACCOUNT_ID), updates |-> <<>>, st |-> st]
    ELSE LET created == create_account(NFT_STORAGE_ACCOUNT_ID, NFT_STORAGE_ACCOUNT_ADDRESS)
             account == add_balance(created.account, NFT_TOKEN_ID, MIN_NFT_TOKEN_ID)
         IN  [account |-> account,
              updates |-> << UpdateBalance(NFT_STORAGE_ACCOUNT_ID, NFT_TOKEN_ID,
                                           0, MIN_NFT_TOKEN_ID, 0, 0) >>
                          \o created.updates,
              st |-> insert_account(st, NFT_STORAGE_ACCOUNT_ID, account)]

\* mutant of get_or_create_nft_account_token_id: the account is created without
\* looking for an existing one
get_or_create_nft_account_token_id_AlwaysCreate(st) ==
    LET created == create_account(NFT_STORAGE_ACCOUNT_ID, NFT_STORAGE_ACCOUNT_ADDRESS)
        account == add_balance(created.account, NFT_TOKEN_ID, MIN_NFT_TOKEN_ID)
    IN  [account |-> account,
         updates |-> created.updates \o
                     << UpdateBalance(NFT_STORAGE_ACCOUNT_ID, NFT_TOKEN_ID,
                                      0, MIN_NFT_TOKEN_ID, 0, 0) >>,
         st |-> insert_account(st, NFT_STORAGE_ACCOUNT_ID, account)]

\* Get or create special account with special balance for enforcing uniqueness of token_id
\* mutant of get_or_create_nft_account_token_id: the counter starts one too high
get_or_create_nft_account_token_id_OffByOne(st) ==
    IF has_account(st, NFT_STORAGE_ACCOUNT_ID)
    THEN [account |-> get_account(st, NFT_STORAGE_ACCOUNT_ID), updates |-> <<>>, st |-> st]
    ELSE LET balance == MIN_NFT_TOKEN_ID + 1
             created == create_account(NFT_STORAGE_ACCOUNT_ID, NFT_STORAGE_ACCOUNT_ADDRESS)
             account == add_balance(created.account, NFT_TOKEN_ID, balance)
         IN  [account |-> account,
              updates |-> created.updates \o
                          << UpdateBalance(NFT_STORAGE_ACCOUNT_ID, NFT_TOKEN_ID, 0, balance, 0, 0) >>,
              st |-> insert_account(st, NFT_STORAGE_ACCOUNT_ID, account)]

get_or_create_nft_account_token_id(st) ==
    IF has_account(st, NFT_STORAGE_ACCOUNT_ID)
    THEN [account |-> get_account(st, NFT_STORAGE_ACCOUNT_ID), updates |-> <<>>, st |-> st]
    ELSE LET balance == MIN_NFT_TOKEN_ID
             created == create_account(NFT_STORAGE_ACCOUNT_ID, NFT_STORAGE_ACCOUNT_ADDRESS)
             account == add_balance(created.account, NFT_TOKEN_ID, MIN_NFT_TOKEN_ID)
         IN  [account |-> account,
              updates |-> created.updates \o
                          << UpdateBalance(NFT_STORAGE_ACCOUNT_ID, NFT_TOKEN_ID, 0, balance, 0, 0) >>,
              st |-> insert_account(st, NFT_STORAGE_ACCOUNT_ID, account)]

\* mutant of AllocateTokenId: the token id is read after the increment
AllocateTokenId_ReadAfterIncrement(nft_account) ==
    LET account == add_balance(nft_account, NFT_TOKEN_ID, 1)
        new_token_id == get_balance(account, NFT_TOKEN_ID)
    IN  [account |-> account, new_token_id |-> new_token_id,
         update |-> UpdateBalance(NFT_STORAGE_ACCOUNT_ID, NFT_TOKEN_ID,
                                  get_balance(nft_account, NFT_TOKEN_ID), new_token_id, 0, 0)]

\* mutant of AllocateTokenId: the counter is logged as incremented but not stored
AllocateTokenId_NoIncrement(nft_account) ==
    LET new_token_id == get_balance(nft_account, NFT_TOKEN_ID)
    IN  [account |-> nft_account, new_token_id |-> new_token_id,
         update |-> UpdateBalance(NFT_STORAGE_ACCOUNT_ID, NFT_TOKEN_ID,
                                  new_token_id, new_token_id + 1, 0, 0)]

\* the token id is the storage account's balance of NFT_TOKEN_ID, which is incremented
AllocateTokenId(nft_account) ==
    LET new_token_id == get_balance(nft_account, NFT_TOKEN_ID)
        account == add_balance(nft_account, NFT_TOKEN_ID, 1)
        next_token_id == get_balance(account, NFT_TOKEN_ID)
    IN  [account |-> account, new_token_id |-> new_token_id,
         update |-> UpdateBalance(NFT_STORAGE_ACCOUNT_ID, NFT_TOKEN_ID,
                                  new_token_id, next_token_id, 0, 0)]

\* mutant of MintToken: the mint marker carries the nonce the creator has now
MintToken_CurrentNonce(creator_account, op, token_id, serial_id, nonce) ==
    LET token_hash == calculate_token_hash(op.tx.creator_id, serial_id, op.tx.content_hash)
        token_address == calculate_token_address(token_hash)
        token == NFT_new(token_id, serial_id, op.tx.creator_id, creator_account.address,
                         token_address, op.tx.content_hash)
    IN  [token |-> token, token_hash |-> token_hash,
         update |-> MintNFTUpdate(op.creator_account_id, token, creator_account.nonce)]

\* the NFT with precalculated token_id, serial_id and address, and its mint marker
MintToken(creator_account, op, token_id, serial_id, nonce) ==
    LET token_hash == calculate_token_hash(op.tx.creator_id, serial_id, op.tx.content_hash)
        token_address == calculate_token_address(token_hash)
        token == NFT_new(token_id, serial_id, op.tx.creator_id, creator_account.address,
                         token_address, op.tx.content_hash)
    IN  [token |-> token, token_hash |-> token_hash,
         update |-> MintNFTUpdate(op.creator_account_id, token, nonce)]

\* assert_eq!(old_balance, 0, "The balance of nft token must be zero")
TokenDataSlotIsZero(nft_account, token_id) == get_balance(nft_account, token_id) = 0

\* mutant of CommitTokenData: the token data is written one slot too far
CommitTokenData_NextSlot(nft_account, token_id, token_hash) ==
    LET token_data == calculate_token_data(token_hash)
        account == add_balance(nft_account, token_id + 1, token_data)
    IN  [account |-> account,
         update |-> UpdateBalance(NFT_STORAGE_ACCOUNT_ID, token_id, 0, token_data,
                                  nft_account.nonce, account.nonce)]

\* the token data becomes the storage account's balance of token_id
CommitTokenData(nft_account, token_id, token_hash) ==
    LET token_data == calculate_token_data(token_hash)
        account == add_balance(nft_account, token_id, token_data)
    IN  [account |-> account,
         update |-> UpdateBalance(NFT_STORAGE_ACCOUNT_ID, token_id, 0, token_data,
                                  nft_account.nonce, account.nonce)]

\* invariant!(old_amount == 0, TokenIsAlreadyInAccount)
RecipientGuard(recipient_account, token_id) == get_balance(recipient_account, token_id) = 0

\* mutant of CreditRecipient: the credit also increments the recipient's nonce
CreditRecipient_BumpsNonce(recipient_account, op, token_id) ==
    LET old_nonce == recipient_account.nonce
        account == [add_balance(recipient_account, token_id, 1) EXCEPT !.nonce = @ + 1]
    IN  [account |-> account,
         update |-> UpdateBalance(op.recipient_account_id, token_id, 0, 1,
                                  old_nonce, account.nonce)]

\* the token is added to the recipient account
CreditRecipient(recipient_account, op, token_id) ==
    LET old_nonce == recipient_account.nonce
        account == add_balance(recipient_account, token_id, 1)
    IN  [account |-> account,
         update |-> UpdateBalance(op.recipient_account_id, token_id, 0, 1,
                                  old_nonce, account.nonce)]

-----------------------------------------------------------------------------
(* apply_op *)

\* what one apply_op leaves behind: the Result it returns (or "Panic"), the store
\* as left by the call, the log and fee of an Ok, and, for the bookkeeping of the
\* model, whether the call got past its checks (applied), the NFT it registered
\* and whether it created the storage account (bootstrap)
Outcome(res, st, upd, collected, applied, token, bootstrap) ==
    [result |-> res, st |-> st, updates |-> upd, fee |-> collected,
     applied |-> applied, token |-> token, bootstrap |-> bootstrap]

CollectedFee(op) == [token |-> op.tx.fee_token, amount |-> op.tx.fee]

\* mutant of mint_with_token_id: the creator's snapshot is written to the store
\* after the recipient was credited, not before
mint_with_token_id_CreatorWrittenLast(st4, op, creator_account, serial_id, nft_account, token_id, nonce, upd4, bootstrap) ==
    LET s5 == MintToken(creator_account, op, token_id, serial_id, nonce)
        st5 == insert_nft(st4, token_id, s5.token)
        upd5 == Append(upd4, s5.update)
    IN
    IF ~TokenDataSlotIsZero(nft_account, token_id)
    THEN Outcome("Panic", st5, <<>>, None, TRUE, Some(s5.token), bootstrap)
    ELSE
    LET s6 == CommitTokenData(nft_account, token_id, s5.token_hash)
        st6 == insert_account(st5, NFT_STORAGE_ACCOUNT_ID, s6.account)
        upd6 == Append(upd5, s6.update)
    IN
    IF ~has_account(st6, op.recipient_account_id)
    THEN Outcome("RecipientAccountNotFound", st6, <<>>, None, TRUE, Some(s5.token), bootstrap)
    ELSE
    LET recipient0 == get_account(st6, op.recipient_account_id)
    IN
    IF ~RecipientGuard(recipient0, token_id)
    THEN Outcome("TokenIsAlreadyInAccount", st6, <<>>, None, TRUE, Some(s5.token), bootstrap)
    ELSE
    LET s7 == CreditRecipient(recipient0, op, token_id)
        st7 == insert_account(insert_account(st6, op.recipient_account_id, s7.account),
                              op.creator_account_id, creator_account)
        upd7 == Append(upd6, s7.update)
    IN  Outcome("Ok", st7, upd7, Some(CollectedFee(op)), TRUE, Some(s5.token), bootstrap)

\* apply_op from the construction of the NFT on: st4 is the store, upd4 the
\* log, creator_account and nft_account the snapshots the call holds after the
\* token id was taken from the counter
mint_with_token_id(st4, op, creator_account, serial_id, nft_account, token_id, nonce, upd4, bootstrap) ==
    LET s5 == MintToken(creator_account, op, token_id, serial_id, nonce)
        st5 == insert_account(insert_nft(st4, token_id, s5.token),
                              op.creator_account_id, creator_account)
        upd5 == Append(upd4, s5.update)
    IN
    IF ~TokenDataSlotIsZero(nft_account, token_id)
    THEN Outcome("Panic", st5, <<>>, None, TRUE, Some(s5.token), bootstrap)
    ELSE
    LET s6 == CommitTokenData(nft_account, token_id, s5.token_hash)
        st6 == insert_account(st5, NFT_STORAGE_ACCOUNT_ID, s6.account)
        upd6 == Append(upd5, s6.update)
    IN
    IF ~has_account(st6, op.recipient_account_id)
    THEN Outcome("RecipientAccountNotFound", st6, <<>>, None, TRUE, Some(s5.token), bootstrap)
    ELSE
    LET recipient0 == get_account(st6, op.recipient_account_id)
    IN
    IF ~RecipientGuard(recipient0, token_id)
    THEN Outcome("TokenIsAlreadyInAccount", st6, <<>>, None, TRUE, Some(s5.token), bootstrap)
    ELSE
    LET s7 == CreditRecipient(recipient0, op, token_id)
        st7 == insert_account(st6, op.recipient_account_id, s7.account)
        upd7 == Append(upd6, s7.update)
    IN  Outcome("Ok", st7, upd7, Some(CollectedFee(op)), TRUE, Some(s5.token), bootstrap)

apply_op(st, op) ==
    IF ~has_account(st, op.creator_account_id)
    THEN Outcome("CreatorAccountNotFound", st, <<>>, None, FALSE, None, FALSE)
    ELSE
    LET creator0 == get_account(st, op.creator_account_id)
        nonce == creator0.nonce
    IN
    IF ~NonceGuard(creator0, op)
    THEN Outcome("NonceMismatch", st, <<>>, None, FALSE, None, FALSE)
    ELSE IF ~BalanceGuard(creator0, op)
    THEN Outcome("InsufficientBalance", st, <<>>, None, FALSE, None, FALSE)
    ELSE
    LET \* fee and nonce
        s1 == CollectFee(creator0, op)
        st1 == insert_account(st, op.creator_account_id, s1.account)
        \* serial id
        s2 == SerialCounter(s1.account, op)
        st2 == insert_account(st1, op.creator_account_id, s2.account)
        \* token id
        s3 == get_or_create_nft_account_token_id(st2)
        s4 == AllocateTokenId(s3.account)
        st4 == insert_account(s3.st, NFT_STORAGE_ACCOUNT_ID, s4.account)
        bootstrap == s3.updates # <<>>
        upd4 == << s1.update, s2.update >> \o s3.updates \o << s4.update >>
    IN
    IF to_u32(s4.new_token_id) = None
    THEN Outcome("Panic", st4, <<>>, None, TRUE, None, bootstrap)
    ELSE mint_with_token_id(st4, op, s2.account, s2.serial_id, s4.account,
                            to_u32(s4.new_token_id)[1], nonce, upd4, bootstrap)

-----------------------------------------------------------------------------
(* apply_tx *)

apply_tx(st, tx) ==
    LET created == create_op(st, tx)
    IN  IF ~created.ok
        THEN Outcome(created.err, st, <<>>, None, FALSE, None, FALSE)
        ELSE apply_op(st, created.op[1])

-----------------------------------------------------------------------------
(* The state machine *)

CurrentStore == Store(accounts, account_id_by_address, nfts)

UserAccount(address, nonce, pub_key_hash, balance) ==
    [address |-> address, nonce |-> nonce, pub_key_hash |-> pub_key_hash,
     balances |-> [ZeroBalances EXCEPT ![0] = balance]]

\* a fresh store: three user accounts, no NFT storage account, no NFT
Init ==
    /\ accounts = (1 :> UserAccount(Address1, 0, 1, 2)) @@
                  (2 :> UserAccount(Address2, 1, 2, 0)) @@
                  (3 :> UserAccount(Address3, 0, DefaultPubKeyHash, 1))
    /\ account_id_by_address = (Address1 :> 1) @@ (Address2 :> 2) @@ (Address3 :> 3)
    /\ nfts = << >>
    /\ result = "None"
    /\ updates = << >>
    /\ fee = None
    /\ history = << >>

\* one entry of history: the applied request and what the call did
Applied(tx, out) ==
    [result |-> out.result, tx |-> tx, token |-> out.token, bootstrap |-> out.bootstrap]

\* the caller submits tx through apply_tx; a panic ends the process
ApplyTx(tx) ==
    /\ result # "Panic"
    /\ LET out == apply_tx(CurrentStore, tx)
       IN  /\ out.applied => Len(history) < MaxMints
           /\ accounts' = out.st.accounts
           /\ account_id_by_address' = out.st.account_id_by_address
           /\ nfts' = out.st.nfts
           /\ result' = out.result
           /\ updates' = out.updates
           /\ fee' = out.fee
           /\ history' = IF out.applied THEN Append(history, Applied(tx, out)) ELSE history

Next == \E tx \in Txs : ApplyTx(tx)

Spec == Init /\ [][Next]_vars

-----------------------------------------------------------------------------
(* Replay of a log (Account::apply_update, ZkSyncState bookkeeping of NFTs) *)

apply_update(st, u) ==
    CASE u.kind = "Create" ->
           insert_account(st, u.id, [NewAccount(u.address) EXCEPT !.nonce = u.nonce])
      [] u.kind = "UpdateBalance" ->
           insert_account(st, u.id,
               [get_account(st, u.id) EXCEPT !.balances[u.token] = u.new_balance,
                                             !.nonce = u.new_nonce])
      [] u.kind = "MintNFT" -> insert_nft(st, u.token.id, u.token)

RECURSIVE apply_updates(_, _)
apply_updates(st, log) ==
    IF log = <<>> THEN st ELSE apply_updates(apply_update(st, Head(log)), Tail(log))

\* the old balance and old nonce of every entry are the account's values when
\* the entry is replayed
RECURSIVE old_values_match(_, _)
old_values_match(st, log) ==
    IF log = <<>> THEN TRUE
    ELSE LET u == Head(log)
         IN  /\ u.kind = "Create" => ~has_account(st, u.id)
             /\ u.kind = "UpdateBalance" =>
                    /\ has_account(st, u.id)
                    /\ get_balance(get_account(st, u.id), u.token) = u.old_balance
                    /\ get_account(st, u.id).nonce = u.old_nonce
             /\ old_values_match(apply_update(st, u), Tail(log))

-----------------------------------------------------------------------------
(* Derived views of the state *)

StorageExists == has_account(CurrentStore, NFT_STORAGE_ACCOUNT_ID)

Counter == get_balance(accounts[NFT_STORAGE_ACCOUNT_ID], NFT_TOKEN_ID)

\* the operations create_op can return in the store
ValidOps(st) == {create_op(st, tx).op[1] : tx \in {t \in Txs : create_op(st, t).ok}}

AllOk == \A i \in 1 .. Len(history) : history[i].result = "Ok"

\* the calls before the i-th applied call that succeeded for the same creator
EarlierOkBy(i) ==
    {j \in 1 .. (i - 1) : /\ history[j].result = "Ok"
                          /\ history[j].tx.creator_id = history[i].tx.creator_id}

TypedErrors ==
    {"InvalidTokenId", "RecipientAccountIncorrect", "CreatorAccountNotFound",
     "CreatorAccountIsLocked", "InvalidSignature", "RecipientAccountNotFound",
     "NonceMismatch", "InsufficientBalance", "TokenIsAlreadyInAccount"}

NoNegativeBalance ==
    \A id \in DOMAIN accounts : \A t \in TokenIds : accounts[id].balances[t] >= 0

-----------------------------------------------------------------------------
(* Claims *)

\* C1: when every mint applied to a fresh store so far succeeded, the i-th of
\* them was assigned token id MIN_NFT_TOKEN_ID + i - 1, whoever its creator and
\* recipient are, and the registry holds its record under that id.
C1_TokenIdsSequential ==
    AllOk =>
        \A i \in 1 .. Len(history) :
            /\ history[i].token # None
            /\ history[i].token[1].id = MIN_NFT_TOKEN_ID + i - 1
            /\ history[i].token[1].id \in DOMAIN nfts
            /\ nfts[history[i].token[1].id] = history[i].token[1]

\* three successful mints in a row, by two creators
C1_Witness ==
    /\ AllOk
    /\ Len(history) >= 3
    /\ history[1].tx.creator_id # history[2].tx.creator_id
    /\ result = "Ok"

\* C2: the k-th successful mint of a creator (counting from 0) is assigned
\* serial_id = k, whatever else was applied in between.
C2_SerialIdIsKthMint ==
    \A i \in 1 .. Len(history) :
        history[i].result = "Ok" =>
            history[i].token[1].serial_id = Cardinality(EarlierOkBy(i))

\* C3: a successful mint increments the nonce of its creator by exactly 1 and
\* changes no other nonce, and every request that was applied successfully,
\* submitted again with its nonce, is answered NonceMismatch.
C3_NonceIncrementsAndReplayFails ==
    [][ /\ result' = "Ok" =>
            LET c == history'[Len(history')].tx.creator_id
            IN  /\ accounts'[c].nonce = accounts[c].nonce + 1
                /\ \A id \in (DOMAIN accounts') \ {c} :
                       accounts'[id].nonce =
                           IF id \in DOMAIN accounts THEN accounts[id].nonce ELSE 0
        /\ \A i \in 1 .. Len(history') :
               history'[i].result = "Ok" =>
                   apply_tx(CurrentStore', history'[i].tx).result = "NonceMismatch"
      ]_vars

\* a request is answered NonceMismatch after two successful mints
C3_Witness ==
    /\ Len(history) >= 2
    /\ AllOk
    /\ result = "NonceMismatch"

\* C4 as stated: no balance is negative, and an apply_op whose fee exceeds the
\* creator's balance of the fee token returns InsufficientBalance and leaves
\* the store as it was.
C4_FeeAboveBalanceIsInsufficientBalance ==
    /\ NoNegativeBalance
    /\ \A op \in ValidOps(CurrentStore) :
           op.tx.fee > get_balance(get_account(CurrentStore, op.creator_account_id),
                                   op.tx.fee_token)
           => /\ apply_op(CurrentStore, op).result = "InsufficientBalance"
              /\ apply_op(CurrentStore, op).st = CurrentStore

\* C4 amended: no balance is negative, and an apply_op whose fee exceeds the
\* creator's balance of the fee token returns InsufficientBalance when the
\* nonce of the operation is the creator's nonce and NonceMismatch when it is
\* not, and in both cases leaves the store as it was and returns no log.
C4_FeeAboveBalanceIsRejected ==
    /\ NoNegativeBalance
    /\ \A op \in ValidOps(CurrentStore) :
           LET creator == get_account(CurrentStore, op.creator_account_id)
               out == apply_op(CurrentStore, op)
           IN  op.tx.fee > get_balance(creator, op.tx.fee_token)
               => /\ out.result = IF creator.nonce = op.tx.nonce
                                  THEN "InsufficientBalance" ELSE "NonceMismatch"
                  /\ out.st = CurrentStore
                  /\ out.updates = <<>>
                  /\ out.fee = None

\* account 1 has spent its balance on fees and a further fee is refused
C4_Witness ==
    /\ result = "InsufficientBalance"
    /\ get_balance(accounts[1], 0) = 0
    /\ Len(history) >= 2

\* C5: an apply_op whose nonce is not the creator's nonce returns
\* NonceMismatch, no log and no fee, and leaves the accounts, the address index
\* and the NFT registry as they were.
C5_NonceMismatchMutatesNothing ==
    \A op \in ValidOps(CurrentStore) :
        LET creator == get_account(CurrentStore, op.creator_account_id)
            out == apply_op(CurrentStore, op)
        IN  creator.nonce # op.tx.nonce
            => /\ out.result = "NonceMismatch"
               /\ out.st = CurrentStore
               /\ out.updates = <<>>
               /\ out.fee = None

\* a NonceMismatch is returned before the storage account exists
C5_Witness ==
    /\ result = "NonceMismatch"
    /\ ~StorageExists
    /\ updates = <<>>

\* C6: a call that returns a typed error has mutated nothing.
C6_ErrorMutatesNothing ==
    [][ result' \in TypedErrors =>
            UNCHANGED <<accounts, account_id_by_address, nfts>> ]_vars

\* C7: no apply_tx on a store grown from a fresh one returns
\* TokenIsAlreadyInAccount.
C7_NeverTokenIsAlreadyInAccount == result # "TokenIsAlreadyInAccount"

\* C8: replaying the log returned by a call on the store before the call gives
\* the store after the call, every entry carrying the old balance and old nonce
\* the account has when the entry is replayed.
C8_ReplayReproducesStore ==
    [][ /\ apply_updates(CurrentStore, updates') = CurrentStore'
        /\ old_values_match(CurrentStore, updates') ]_vars

\* C9: the log of a successful call is: fee and nonce of the creator, serial
\* counter of the creator, then, when this is the first applied call and the
\* storage account did not exist, its creation and its counter 0 ->
\* MIN_NFT_TOKEN_ID, then the storage counter, the mint marker under the
\* creator, the token data of the storage account, the credit of the recipient;
\* and nothing else.
C9_LogOrder ==
    result = "Ok" =>
        LET h == history[Len(history)]
            tx == h.tx
            token == h.token[1]
            k == IF Len(history) = 1 THEN 2 ELSE 0
            u == updates
        IN  /\ Len(u) = 6 + k
            /\ u[1].kind = "UpdateBalance" /\ u[1].id = tx.creator_id
            /\ u[1].token = tx.fee_token
            /\ u[1].new_balance = u[1].old_balance - tx.fee
            /\ u[1].old_nonce = tx.nonce /\ u[1].new_nonce = tx.nonce + 1
            /\ u[2].kind = "UpdateBalance" /\ u[2].id = tx.creator_id
            /\ u[2].token = NFT_TOKEN_ID
            /\ u[2].old_balance = token.serial_id
            /\ u[2].new_balance = token.serial_id + 1
            /\ k = 2 => /\ u[3] = [id |-> NFT_STORAGE_ACCOUNT_ID, kind |-> "Create",
                                   address |-> NFT_STORAGE_ACCOUNT_ADDRESS, nonce |-> 0]
                        /\ u[4] = UpdateBalance(NFT_STORAGE_ACCOUNT_ID, NFT_TOKEN_ID,
                                                0, MIN_NFT_TOKEN_ID, 0, 0)
            /\ u[3 + k] = UpdateBalance(NFT_STORAGE_ACCOUNT_ID, NFT_TOKEN_ID,
                                        token.id, token.id + 1, 0, 0)
            /\ u[4 + k] = MintNFTUpdate(tx.creator_id, token, tx.nonce)
            /\ u[5 + k].kind = "UpdateBalance" /\ u[5 + k].id = NFT_STORAGE_ACCOUNT_ID
            /\ u[5 + k].token = token.id /\ u[5 + k].old_balance = 0
            /\ u[5 + k].new_balance = get_balance(accounts[NFT_STORAGE_ACCOUNT_ID], token.id)
            /\ u[6 + k].kind = "UpdateBalance"
            /\ u[6 + k].id = account_id_by_address[tx.recipient]
            /\ u[6 + k].token = token.id
            /\ u[6 + k].old_balance = 0 /\ u[6 + k].new_balance = 1

\* the first applied call succeeded and its log holds the bootstrap entries
C9_Witness ==
    /\ result = "Ok"
    /\ Len(history) = 1
    /\ Len(updates) = 8

\* C10: with the storage account in the store, get_or_create_nft_account_token_id
\* returns the stored account, no log entry and an unchanged store; the first
\* applied call, and no other, creates the account and sets its counter to
\* MIN_NFT_TOKEN_ID, and the counter then counts the applied calls.
C10_BootstrapOnce ==
    /\ StorageExists =>
           LET g == get_or_create_nft_account_token_id(CurrentStore)
           IN  /\ g.st = CurrentStore
               /\ g.updates = <<>>
               /\ g.account = accounts[NFT_STORAGE_ACCOUNT_ID]
    /\ StorageExists <=> history # <<>>
    /\ \A i \in 1 .. Len(history) : history[i].bootstrap <=> (i = 1)
    /\ StorageExists => Counter = MIN_NFT_TOKEN_ID + Len(history)

\* a second call was applied with the storage account already there
C10_Witness ==
    /\ StorageExists
    /\ Len(history) >= 2
    /\ ~history[2].bootstrap

\* the request of the last applied call, its creator and its recipient
LastTx == history[Len(history)].tx

LastToken == history[Len(history)].token[1]

\* the counter the next mint reads: that of the storage account, or the one
\* the bootstrap gives it
NextTokenId == IF StorageExists THEN Counter ELSE MIN_NFT_TOKEN_ID

\* C11: a step that returns Ok debits the fee from the creator's balance of the
\* fee token and adds 1 to its nonce, adds 1 to the creator's serial counter
\* and to the storage counter, adds to the registry one record (token id: the
\* previous storage counter; serial id: the creator's previous serial counter;
\* creator id, creator address and content hash of the request), sets the
\* storage account's balance of the token id to the derived token data, takes
\* the recipient's balance of the token id from 0 to 1 and returns the fee
\* (fee_token, fee).
C11_EffectsOfSuccessfulMint ==
    [][ result' = "Ok" =>
            LET tx == LastTx'
                c == tx.creator_id
                r == account_id_by_address[tx.recipient]
                token_id == NextTokenId
                serial_id == get_balance(accounts[c], NFT_TOKEN_ID)
                token_hash == calculate_token_hash(c, serial_id, tx.content_hash)
            IN  /\ get_balance(accounts'[c], tx.fee_token) =
                       get_balance(accounts[c], tx.fee_token) - tx.fee
                /\ accounts'[c].nonce = accounts[c].nonce + 1
                /\ get_balance(accounts'[c], NFT_TOKEN_ID) = serial_id + 1
                /\ get_balance(accounts'[NFT_STORAGE_ACCOUNT_ID], NFT_TOKEN_ID) = token_id + 1
                /\ DOMAIN nfts' = (DOMAIN nfts) \cup {token_id}
                /\ token_id \notin DOMAIN nfts
                /\ nfts'[token_id].id = token_id
                /\ nfts'[token_id].serial_id = serial_id
                /\ nfts'[token_id].creator_id = c
                /\ nfts'[token_id].creator_address = accounts[c].address
                /\ nfts'[token_id].content_hash = tx.content_hash
                /\ get_balance(accounts'[NFT_STORAGE_ACCOUNT_ID], token_id) =
                       calculate_token_data(token_hash)
                /\ get_balance(accounts[r], token_id) = 0
                /\ get_balance(accounts'[r], token_id) = 1
                /\ fee' = Some([token |-> tx.fee_token, amount |-> tx.fee])
      ]_vars

\* a mint with fee 1 succeeded after an earlier applied call
C11_Witness ==
    /\ result = "Ok"
    /\ Len(history) >= 2
    /\ LastTx.fee = 1
    /\ fee = Some([token |-> 0, amount |-> 1])

\* the errors of create_op in the order of its checks
CheckErrors ==
    << "InvalidTokenId", "RecipientAccountIncorrect", "CreatorAccountNotFound",
       "CreatorAccountIsLocked", "InvalidSignature", "RecipientAccountNotFound" >>

\* the positions of the checks of create_op that tx fails in st, each taken
\* alone (the two checks that read the creator need it to exist)
FailingChecks(st, tx) ==
    LET known == tx.creator_id \in DOMAIN st.accounts
    IN  {i \in 1..6 :
            \/ i = 1 /\ tx.fee_token > MaxProcessableToken
            \/ i = 2 /\ tx.recipient = ZeroAddress
            \/ i = 3 /\ ~known
            \/ i = 4 /\ known /\ st.accounts[tx.creator_id].pub_key_hash = DefaultPubKeyHash
            \/ i = 5 /\ known /\ Len(tx.signature) = 1
                     /\ tx.signature[1] # st.accounts[tx.creator_id].pub_key_hash
            \/ i = 6 /\ tx.recipient \notin DOMAIN st.account_id_by_address}

\* C12: in every reachable store and for every request, create_op returns the
\* error of the earliest failing check in the order fee token bound, zero
\* recipient address, creator exists, creator unlocked, signature match,
\* recipient exists; it returns the operation with both account ids when no
\* check fails; a request without a recoverable signature never gets
\* InvalidSignature.
C12_FirstFailingCheckDecides ==
    \A tx \in Txs :
        LET failing == FailingChecks(CurrentStore, tx)
            r == create_op(CurrentStore, tx)
        IN  /\ failing = {} =>
                /\ r.ok
                /\ r.op[1].creator_account_id = tx.creator_id
                /\ r.op[1].recipient_account_id = account_id_by_address[tx.recipient]
            /\ failing # {} =>
                /\ ~r.ok
                /\ r.err = CheckErrors[CHOOSE i \in failing : \A j \in failing : i <= j]
            /\ tx.signature = None => r.err # "InvalidSignature"

\* after a mint, a request that fails the signature check and the recipient
\* lookup was rejected with InvalidSignature
C12_Witness ==
    /\ result = "InvalidSignature"
    /\ Len(history) >= 1
    /\ \E tx \in Txs :
          /\ FailingChecks(CurrentStore, tx) = {5, 6}
          /\ create_op(CurrentStore, tx).err = "InvalidSignature"

\* C13: no step removes a registry entry or changes the record stored under a
\* token id, and a call that registers an NFT does so under a token id that
\* was not in the registry before.
C13_RegistryEntriesArePermanent ==
    [][ /\ \A t \in DOMAIN nfts : t \in DOMAIN nfts' /\ nfts'[t] = nfts[t]
        /\ (Len(history') > Len(history) /\ history'[Len(history')].token # None) =>
               /\ LastToken'.id \notin DOMAIN nfts
               /\ nfts'[LastToken'.id] = LastToken'
      ]_vars

\* two records are registered, the first one unchanged by the second mint
C13_Witness ==
    /\ Len(history) >= 2
    /\ history[1].token # None
    /\ LastToken.id # history[1].token[1].id
    /\ history[1].token[1].id \in DOMAIN nfts
    /\ nfts[history[1].token[1].id] = history[1].token[1]
    /\ nfts[LastToken.id] = LastToken

Holders(token_id) == {id \in DOMAIN accounts : get_balance(accounts[id], token_id) = 1}

\* the recipients' account ids of the applied calls that registered token_id
MintRecipients(token_id) ==
    {account_id_by_address[history[i].tx.recipient] :
        i \in {j \in 1..Len(history) :
                  history[j].token # None /\ history[j].token[1].id = token_id}}

\* C15: every record of the registry has exactly one account with balance 1
\* at its token id, the recipient of the mint that registered it, and the
\* storage account's balance of the token id is the token data derived from
\* the record's creator id, serial id and content hash.
C15_EveryNftHasOneHolder ==
    \A t \in DOMAIN nfts :
        /\ Cardinality(Holders(t)) = 1
        /\ Holders(t) = MintRecipients(t)
        /\ get_balance(accounts[NFT_STORAGE_ACCOUNT_ID], t) =
               calculate_token_data(calculate_token_hash(nfts[t].creator_id,
                                                         nfts[t].serial_id,
                                                         nfts[t].content_hash))

\* the positions of the mint markers in the log of the last call
MintMarkers == {i \in 1..Len(updates) : updates[i].kind = "MintNFT"}

\* C16: the log of a successful call has one mint marker; it stands after the
\* creator's fee entry and serial-counter entry, whose new_nonce is the
\* operation's nonce + 1 (the nonce the creator has in the store by then), and
\* it carries the operation's nonce, the old_nonce of the fee entry.
C16_MintMarkerCarriesOperationNonce ==
    result = "Ok" =>
        /\ Cardinality(MintMarkers) = 1
        /\ \A i \in MintMarkers :
              /\ i > 2
              /\ updates[i].id = LastTx.creator_id
              /\ updates[i].nonce = LastTx.nonce
              /\ updates[i].nonce = updates[1].old_nonce
              /\ updates[1].new_nonce = updates[i].nonce + 1
              /\ updates[2].new_nonce = updates[i].nonce + 1
              /\ accounts[LastTx.creator_id].nonce = updates[i].nonce + 1

\* a mint with operation nonce 1 succeeded: its marker carries 1, the creator has 2
C16_Witness ==
    /\ result = "Ok"
    /\ LastTx.nonce = 1
    /\ \E i \in MintMarkers : updates[i].nonce = 1
    /\ accounts[LastTx.creator_id].nonce = 2

-----------------------------------------------------------------------------
(* The storage counter beyond 32 bits.  A BigUint that the integers of TLC cannot hold
   is kept as two limbs, hi * 2^16 + lo with lo < 2^16;
   it fits a u32 when hi < 2^16. *)

Limbs(hi, lo) == [hi |-> hi, lo |-> lo]

\* mutant of BigUint_add: the sum is kept in 32 bits
BigUint_add_Wrapping(b, amount) ==
    LET lo == b.lo + amount
    IN  Limbs((b.hi + (lo \div 65536)) % 65536, lo % 65536)

\* BigUint + amount, with the carry into the upper limb and no upper bound
BigUint_add(b, amount) ==
    LET lo == b.lo + amount
    IN  Limbs(b.hi + (lo \div 65536), lo % 65536)

\* mutant of BigUint_to_u32: the low 32 bits are taken
BigUint_to_u32_Truncating(b) == Some((b.hi % 65536) * 65536 + b.lo)

\* BigUint::to_u32() on limbs: None when the value is 2^32 or more
BigUint_to_u32(b) == IF b.hi < 65536 THEN Some(b.hi * 65536 + b.lo) ELSE None

\* lines 127-138 on a storage account whose counter is held as limbs
AllocateWideTokenId(nft_account) ==
    LET new_token_id == get_balance(nft_account, NFT_TOKEN_ID)
        account == [nft_account EXCEPT !.balances[NFT_TOKEN_ID] = BigUint_add(@, 1)]
        next_token_id == get_balance(account, NFT_TOKEN_ID)
    IN  [account |-> account, new_token_id |-> new_token_id,
         update |-> UpdateBalance(NFT_STORAGE_ACCOUNT_ID, NFT_TOKEN_ID,
                                  new_token_id, next_token_id, 0, 0)]

\* apply_op on a store whose storage counter is held as limbs
apply_op_wide(st, op) ==
    IF ~has_account(st, op.creator_account_id)
    THEN Outcome("CreatorAccountNotFound", st, <<>>, None, FALSE, None, FALSE)
    ELSE
    LET creator0 == get_account(st, op.creator_account_id)
        nonce == creator0.nonce
    IN
    IF ~NonceGuard(creator0, op)
    THEN Outcome("NonceMismatch", st, <<>>, None, FALSE, None, FALSE)
    ELSE IF ~BalanceGuard(creator0, op)
    THEN Outcome("InsufficientBalance", st, <<>>, None, FALSE, None, FALSE)
    ELSE
    LET s1 == CollectFee(creator0, op)
        st1 == insert_account(st, op.creator_account_id, s1.account)
        s2 == SerialCounter(s1.account, op)
        st2 == insert_account(st1, op.creator_account_id, s2.account)
        s3 == get_or_create_nft_account_token_id(st2)
        s4 == AllocateWideTokenId(s3.account)
        st4 == insert_account(s3.st, NFT_STORAGE_ACCOUNT_ID, s4.account)
        bootstrap == s3.updates # <<>>
        upd4 == << s1.update, s2.update >> \o s3.updates \o << s4.update >>
    IN
    IF BigUint_to_u32(s4.new_token_id) = None
    THEN Outcome("Panic", st4, <<>>, None, TRUE, None, bootstrap)
    ELSE mint_with_token_id(st4, op, s2.account, s2.serial_id, s4.account,
                            BigUint_to_u32(s4.new_token_id)[1], nonce, upd4, bootstrap)

apply_tx_wide(st, tx) ==
    LET created == create_op(st, tx)
    IN  IF ~created.ok
        THEN Outcome(created.err, st, <<>>, None, FALSE, None, FALSE)
        ELSE apply_op_wide(st, created.op[1])

\* counters of 2^32 and more: 2^32 itself, 2^32 + 2^16 + lo and 2^33 + 2^16 + lo
WideCounters ==
    {Limbs(65536, 0)} \cup {Limbs(hi, lo) : hi \in {65537, 131073}, lo \in 0..4}

\* the store of Init with a storage account whose counter does not fit a u32;
\* the registry records and the holders of the mints that took the counter
\* there are left out, no step up to the extraction of the token id reads them
InitWide ==
    /\ \E c \in WideCounters :
          accounts = (1 :> UserAccount(Address1, 0, 1, 2)) @@
                     (2 :> UserAccount(Address2, 1, 2, 0)) @@
                     (3 :> UserAccount(Address3, 0, DefaultPubKeyHash, 1)) @@
                     (NFT_STORAGE_ACCOUNT_ID :>
                         [NewAccount(NFT_STORAGE_ACCOUNT_ADDRESS)
                             EXCEPT !.balances[NFT_TOKEN_ID] = c])
    /\ account_id_by_address = (Address1 :> 1) @@ (Address2 :> 2) @@ (Address3 :> 3) @@
                               (NFT_STORAGE_ACCOUNT_ADDRESS :> NFT_STORAGE_ACCOUNT_ID)
    /\ nfts = << >>
    /\ result = "None"
    /\ updates = << >>
    /\ fee = None
    /\ history = << >>

ApplyTxWide(tx) ==
    /\ result # "Panic"
    /\ LET out == apply_tx_wide(CurrentStore, tx)
       IN  /\ out.applied => Len(history) < MaxMints
           /\ accounts' = out.st.accounts
           /\ account_id_by_address' = out.st.account_id_by_address
           /\ nfts' = out.st.nfts
           /\ result' = out.result
           /\ updates' = out.updates
           /\ fee' = out.fee
           /\ history' = IF out.applied THEN Append(history, Applied(tx, out)) ELSE history

NextWide == \E tx \in Txs : ApplyTxWide(tx)

SpecWide == InitWide /\ [][NextWide]_vars

\* C17: on a store whose storage counter is 2^32 or more, a call that gets
\* past the nonce and balance checks ends in the abort of the token id
\* extraction: nothing is added to the registry, no token slot of any account
\* changes, no log and no fee are returned, and the stored counter is the old
\* one plus 1 as an unbounded number (the carry goes into the upper limb).
C17_UnrepresentableCounterAborts ==
    [][ (Counter.hi >= 65536 /\ Len(history') > Len(history)) =>
            /\ result' = "Panic"
            /\ history'[Len(history')].token = None
            /\ nfts' = nfts
            /\ updates' = << >> /\ fee' = None
            /\ \A id \in DOMAIN accounts : \A t \in TokenIds \ {0, NFT_TOKEN_ID} :
                  get_balance(accounts'[id], t) = get_balance(accounts[id], t)
            /\ \/ /\ Counter.lo < 65535
                  /\ Counter' = Limbs(Counter.hi, Counter.lo + 1)
               \/ /\ Counter.lo = 65535
                  /\ Counter' = Limbs(Counter.hi + 1, 0)
      ]_vars

\* the call on the counter 2^32 aborted; the counter is 2^32 + 1 and no NFT
\* is registered
C17_Witness ==
    /\ result = "Panic"
    /\ Len(history) = 1
    /\ Counter = Limbs(65536, 1)
    /\ nfts = << >>

-----------------------------------------------------------------------------

\* the sum of the serial counters (balances of NFT_TOKEN_ID) of the accounts ids
RECURSIVE SerialCounters(_)
SerialCounters(ids) ==
    IF ids = {} THEN 0
    ELSE LET id == CHOOSE x \in ids : TRUE
         IN  get_balance(accounts[id], NFT_TOKEN_ID) + SerialCounters(ids \ {id})

\* C18: once the storage account exists, its counter is MIN_NFT_TOKEN_ID plus
\* the number of registry records, every registry key is at least
\* MIN_NFT_TOKEN_ID and below the counter, and the serial counters of all
\* other accounts add up to the number of registry records; before it exists
\* the registry is empty and all serial counters are zero.
C18_CounterCountsRegistry ==
    LET creators == (DOMAIN accounts) \ {NFT_STORAGE_ACCOUNT_ID}
    IN  /\ SerialCounters(creators) = Cardinality(DOMAIN nfts)
        /\ ~StorageExists => DOMAIN nfts = {}
        /\ StorageExists =>
              /\ Counter = MIN_NFT_TOKEN_ID + Cardinality(DOMAIN nfts)
              /\ \A t \in DOMAIN nfts : MIN_NFT_TOKEN_ID <= t /\ t < Counter

\* three records by two creators, one of them registered by a call that failed
\* after its writes
C18_Witness ==
    /\ Cardinality(DOMAIN nfts) = 3
    /\ Counter = MIN_NFT_TOKEN_ID + 3
    /\ get_balance(accounts[1], NFT_TOKEN_ID) >= 1
    /\ get_balance(accounts[2], NFT_TOKEN_ID) >= 1
    /\ \E i \in 1..Len(history) : history[i].result = "TokenIsAlreadyInAccount"

\* the storage account a mint starts from: the stored one, or the one the
\* bootstrap creates
StorageBefore ==
    IF StorageExists THEN accounts[NFT_STORAGE_ACCOUNT_ID]
    ELSE add_balance(NewAccount(NFT_STORAGE_ACCOUNT_ADDRESS), NFT_TOKEN_ID, MIN_NFT_TOKEN_ID)

\* C19: after a step that returns Ok, an account written several times holds
\* all the changes of the call: the storage account is its old snapshot with
\* the counter incremented and the token data in the slot of the new token id;
\* a creator that is also the recipient is its old snapshot with the fee
\* debited, the nonce incremented, the serial counter incremented and balance
\* 1 at the new token id.
C19_NoWriteLosesAChange ==
    [][ result' = "Ok" =>
            LET tx == LastTx'
                c == tx.creator_id
                t == NextTokenId
            IN  /\ accounts'[NFT_STORAGE_ACCOUNT_ID] =
                       [StorageBefore EXCEPT
                           !.balances = [@ EXCEPT
                               ![NFT_TOKEN_ID] = @ + 1,
                               ![t] = get_balance(accounts'[NFT_STORAGE_ACCOUNT_ID], t)]]
                /\ get_balance(accounts'[NFT_STORAGE_ACCOUNT_ID], t) # 0
                /\ c = account_id_by_address[tx.recipient] =>
                       accounts'[c] =
                           [accounts[c] EXCEPT
                               !.nonce = @ + 1,
                               !.balances = [@ EXCEPT
                                   ![tx.fee_token] = @ - tx.fee,
                                   ![NFT_TOKEN_ID] = @ + 1,
                                   ![t] = 1]]
      ]_vars

\* a creator minted to its own address, paying fee 1, after an earlier mint
C19_Witness ==
    /\ result = "Ok"
    /\ Len(history) >= 2
    /\ LastTx.creator_id = account_id_by_address[LastTx.recipient]
    /\ LastTx.fee = 1
    /\ get_balance(accounts[LastTx.creator_id], LastToken.id) = 1
    /\ accounts[LastTx.creator_id].nonce = LastTx.nonce + 1

\* the account under id before a step; for the storage account that the step
\* creates, the default account it is created as
AccountBefore(id) ==
    IF id \in DOMAIN accounts THEN accounts[id] ELSE NewAccount(NFT_STORAGE_ACCOUNT_ADDRESS)

\* C20: a call that does not get past its checks changes nothing in the store.
\* A call that does adds exactly one registry record, under the storage
\* counter, and adds no account but the storage account; it changes only the
\* creator, the storage account and the recipient, in no account the address
\* or the key fingerprint, no nonce but the creator's, and no balance slot but
\* those of the fee token, the pseudo-token NFT_TOKEN_ID and the new token id.
C20_FrameOfMint ==
    [][ /\ Len(history') = Len(history) =>
              accounts' = accounts /\ nfts' = nfts
                  /\ account_id_by_address' = account_id_by_address
        /\ Len(history') > Len(history) =>
              LET tx == LastTx'
                  c == tx.creator_id
                  r == account_id_by_address[tx.recipient]
                  t == NextTokenId
              IN  /\ DOMAIN nfts' = (DOMAIN nfts) \cup {t}
                  /\ t \notin DOMAIN nfts
                  /\ \A k \in DOMAIN nfts : nfts'[k] = nfts[k]
                  /\ DOMAIN accounts' = (DOMAIN accounts) \cup {NFT_STORAGE_ACCOUNT_ID}
                  /\ \A id \in DOMAIN accounts' :
                        /\ id \notin {c, r, NFT_STORAGE_ACCOUNT_ID} =>
                              accounts'[id] = accounts[id]
                        /\ accounts'[id].address = AccountBefore(id).address
                        /\ accounts'[id].pub_key_hash = AccountBefore(id).pub_key_hash
                        /\ id # c => accounts'[id].nonce = AccountBefore(id).nonce
                        /\ \A s \in TokenIds \ {tx.fee_token, NFT_TOKEN_ID, t} :
                              get_balance(accounts'[id], s) =
                                  get_balance(AccountBefore(id), s)
      ]_vars

\* creator 2 minted to the address of account 1 after two earlier applied
\* calls: accounts 1, 2 and the storage account were touched, account 3 is as
\* it was created
C20_Witness ==
    /\ result = "Ok"
    /\ Len(history) = 3
    /\ LastTx.creator_id = 2
    /\ LastTx.recipient = Address1
    /\ get_balance(accounts[1], LastToken.id) = 1
    /\ accounts[3] = UserAccount(Address3, 0, DefaultPubKeyHash, 1)

====
